---- MODULE Spec2Model ----
(***************************************************************************)
(* HubSpotAPIService (templates/services/api_service.py): the sliding      *)
(* window rate limiter _wait_for_rate_limit, the single page fetch         *)
(* get_deals and the paginating generator get_all_deals, driven by one     *)
(* caller against a backend that serves a chain of pages.                  *)
(*                                                                         *)
(* Time is wall-clock seconds; the clock moves in steps of TickStep and by *)
(* the sleeps of the code.  Python's None is the empty tuple <<>> and a    *)
(* present value v is <<v>>, so that an empty string and None differ.      *)
(***************************************************************************)
EXTENDS Integers, Sequences, FiniteSets, TLC

\* ---------------------------------------------------------------- bounds
\* RATE_LIMIT_MAX is 150 in the source (api_service.py:35); the model keeps
\* the algorithm and scales the quota down so that the limit is reached.
RATE_LIMIT_MAX == 2
\* the caller's clock advances on its own up to MaxTime (sleeps go beyond it)
MaxTime == 5
\* ... and up to MaxIdle when get_deals alone is called (SpecLimiter)
MaxIdle == 30
\* number of pages of the backend's chain
MaxPages == 2
\* number of 429 responses the backend gives during one extraction
MaxThrottle == 2
\* number of entries of a page's "results" when it is not empty
MaxPageLen == 2
\* largest checkpoint_interval the caller passes
MaxInterval == 2
\* calls of _wait_for_rate_limit one thread makes
MaxAdmits == 2
\* how far from the API maximum the limit arguments of get_deals lie
MaxExcess == 2
\* granularity of the clock
TickStep == 5

\* ------------------------------------------------------ program constants
RATE_LIMIT_WINDOW == 10
\* time.sleep(10) of the retry path of get_all_deals
RETRY_SLEEP == 10
\* response.headers.get('Retry-After', 10)
DEFAULT_RETRY_AFTER == 10
\* the Retry-After value the backend signals ('Retry-After': '5')
SIGNALED_RETRY_AFTER == 5
\* checkpoint_interval: int = 5
DEFAULT_CHECKPOINT_INTERVAL == 5
\* get_deals(limit: int = 100)
DEFAULT_LIMIT == 100
\* "limit": min(limit, 100)  # API max is 100
API_MAX_LIMIT == 100
\* get_all_deals calls self.get_deals(limit=100, ...)
EXTRACTION_LIMIT == 100

None == <<>>
Some(v) == <<v>>

\* ---------------------------------------------------------- rate limiter
\* [t for t in self._request_times if t > cutoff_time]
Prune(times, t) == SelectSeq(times, LAMBDA x : x > t - RATE_LIMIT_WINDOW)

\* len(self._request_times) >= self.RATE_LIMIT_MAX
AtLimit_gt(times) == Len(times) > RATE_LIMIT_MAX
AtLimit(times) == Len(times) >= RATE_LIMIT_MAX

\* (variants of _wait_for_rate_limit: no timestamp recorded after a sleep; the
\* wait measured from the newest timestamp)
WaitForRateLimit_unrecorded(times, t, over) ==
    LET pruned == Prune(times, t)
    IN  IF AtLimit(pruned) /\ RATE_LIMIT_WINDOW - (t - pruned[1]) > 0
        THEN LET wait_time == RATE_LIMIT_WINDOW - (t - pruned[1])
                 t2 == t + wait_time + over
             IN  [times |-> Prune(pruned, t2), now |-> t2, slept |-> wait_time]
        ELSE [times |-> Append(pruned, t), now |-> t, slept |-> 0]

WaitForRateLimit_newest(times, t, over) ==
    LET pruned == Prune(times, t)
    IN  IF AtLimit(pruned) /\ RATE_LIMIT_WINDOW - (t - pruned[Len(pruned)]) > 0
        THEN LET wait_time == RATE_LIMIT_WINDOW - (t - pruned[Len(pruned)])
                 t2 == t + wait_time + over
             IN  [times |-> Append(Prune(pruned, t2), t2),
                  now |-> t2, slept |-> wait_time]
        ELSE [times |-> Append(pruned, t), now |-> t, slept |-> 0]

\* _wait_for_rate_limit called at time t with the list times; over is the time
\* time.sleep takes beyond the requested duration.  The result is the list and
\* the clock on return, and the duration slept (0: no sleep).
WaitForRateLimit(times, t, over) ==
    LET pruned == Prune(times, t)
    IN  IF AtLimit(pruned)
        THEN LET wait_time == RATE_LIMIT_WINDOW - (t - pruned[1])
             IN  IF wait_time > 0
                 THEN LET t2 == t + wait_time + over
                      IN  [times |-> Append(Prune(pruned, t2), t2),
                           now |-> t2, slept |-> wait_time]
                 ELSE [times |-> Append(pruned, t), now |-> t, slept |-> 0]
        ELSE [times |-> Append(pruned, t), now |-> t, slept |-> 0]


\* the timestamps that were appended on the way from the list old to the list
\* new: what follows the entries of old that new kept
Appended(old, new) ==
    LET kept == { k \in 0..Len(new) :
                    k <= Len(old) /\ SubSeq(new, 1, k) = SubSeq(old, Len(old) - k + 1, Len(old)) }
    IN  Len(new) - (CHOOSE k \in kept : \A j \in kept : j <= k)

\* ---------------------------------------------------------------- backend
\* cursor tokens the backend may hand out; "" is the empty string
Cursors == {"", "cursor123", "cursor456"}

\* the shapes of a response's pagination info:
\*   "no_paging"  no "paging" key          "no_next"   "paging": {}
\*   "no_after"   "paging": {"next": {}}   "after"     "paging": {"next": {"after": c}}
EndShapes == {"no_paging", "no_next", "no_after"}

\* the deals of page k when it holds n entries: deal j of page k has id 10k + j
PageResults(k, n) == [j \in 1..n |-> [id |-> 10 * k + j]]

\* the chain of n pages with sizes[k] entries on page k, linked by the cursors
\* after[k] (k < n) and ending with a page whose pagination info has the shape end
Chain(n, sizes, cursor, end) ==
    [k \in 1..n |->
        [results |-> PageResults(k, sizes[k]),
         shape |-> IF k < n THEN "after" ELSE end,
         after |-> IF k < n THEN cursor[k] ELSE ""]]

\* the backends: every page but the last names a cursor of its own, the last
\* is the first whose pagination info lacks next.after
Chains ==
    UNION { { Chain(n, sizes, cursor, end) :
                sizes \in [1..n -> {0, MaxPageLen}],
                cursor \in { c \in [1..(n-1) -> Cursors] :
                               \A j, k \in 1..(n-1) : c[j] = c[k] => j = k },
                end \in EndShapes } : n \in 1..MaxPages }

\* entries of "results" as the API shapes them, and entries whose id is empty
\* or missing
Entries ==
    { [id |-> "123", properties |-> [dealname |-> "Test Deal", amount |-> "10000"],
       archived |-> FALSE],
      [id |-> "", properties |-> [dealname |-> "Deal 1"], archived |-> FALSE],
      [properties |-> [dealname |-> "Deal 2"], archived |-> FALSE] }

\* the single pages of one or two such entries
EntryChains ==
    { <<[results |-> r, shape |-> end, after |-> ""]>> :
        r \in { <<e>> : e \in Entries } \cup { <<e, f>> : e, f \in Entries },
        end \in EndShapes }

\* the page the backend serves for a request: the first without an "after"
\* parameter, else the page that follows the one that handed the cursor out
ServerPage(chain, param) ==
    IF param = None THEN 1
    ELSE 1 + CHOOSE k \in 1..Len(chain) :
                 chain[k].shape = "after" /\ chain[k].after = param[1]

\* what one HTTP exchange can come to: a transport failure, or a response with
\* a status code, a Retry-After header (None: absent) and a body that
\* response.json() parses ("ok") or rejects, with the exception class of the
\* installed requests version
Responses ==
    { [transport |-> t, status_code |-> 0, retry_after |-> None, json |-> "ok"] :
        t \in {"Timeout", "ConnectionError"} }
    \cup { [transport |-> "ok", status_code |-> 429, retry_after |-> h, json |-> "ok"] :
        h \in {None, Some(SIGNALED_RETRY_AFTER)} }
    \cup { [transport |-> "ok", status_code |-> c, retry_after |-> None, json |-> "ok"] :
        c \in {200, 401, 403, 500} }
    \cup { [transport |-> "ok", status_code |-> 200, retry_after |-> None, json |-> j] :
        j \in {"JSONDecodeError", "ValueError"} }

\* ------------------------------------------------------------- get_deals
\* if after: params["after"] = after
AfterParam(after) == IF after # None /\ after[1] # "" THEN after ELSE None

\* "limit": min(limit, 100)
QueryLimit_unclamped(limit) == limit

QueryLimit(limit) == IF limit < API_MAX_LIMIT THEN limit ELSE API_MAX_LIMIT

\* a call get_deals(limit=...) and the "limit" of the params it builds
Request(limit) == [limit |-> limit, params |-> [limit |-> QueryLimit(limit)]]

\* the exception classes that derive from HubSpotAPIError
IsHubSpotAPIError(e) ==
    e \in {"HubSpotAPIError", "HubSpotAuthenticationError", "HubSpotRateLimitError"}

\* int(response.headers.get('Retry-After', 10))
RetryAfter(resp) ==
    IF resp.retry_after = None THEN DEFAULT_RETRY_AFTER ELSE resp.retry_after[1]

\* the exception get_deals raises on the exchange resp, None when it returns
\* the parsed body
GetDealsRaises_lenient(resp) ==
    IF resp.transport # "ok" THEN Some("HubSpotAPIError")
    ELSE IF resp.status_code = 429 THEN Some("HubSpotRateLimitError")
    ELSE IF resp.status_code = 401 THEN Some("HubSpotAuthenticationError")
    ELSE IF resp.status_code >= 400 THEN Some("HubSpotAPIError")
    ELSE None

GetDealsRaises(resp) ==
    IF resp.transport = "Timeout" THEN Some("HubSpotAPIError")
    ELSE IF resp.transport # "ok" THEN Some("HubSpotAPIError")
    ELSE IF resp.status_code = 429 THEN Some("HubSpotRateLimitError")
    ELSE IF resp.status_code = 401 THEN Some("HubSpotAuthenticationError")
    ELSE IF resp.status_code >= 400 THEN Some("HubSpotAPIError")
    ELSE IF resp.json = "JSONDecodeError" THEN Some("HubSpotAPIError")
    ELSE IF resp.json = "ValueError" THEN Some("ValueError")
    ELSE None

\* --------------------------------------------------------- get_all_deals
\* except HubSpotRateLimitError: the clause that takes the exception exc
CaughtRateLimit_never(exc) == FALSE
CaughtRateLimit_any(exc) == exc # None /\ IsHubSpotAPIError(exc[1])
CaughtRateLimit(exc) == exc = Some("HubSpotRateLimitError")

\* time.sleep(10); continue: the cursor the next turn of the loop starts with
RetryCursor_reset(a) == None
RetryCursor(a) == a

\* the generator's body runs from a next() of the consumer to the yield that
\* answers it: it is running when more was asked for than was yielded
Resumed_eager(n_asked, n_yielded) == TRUE
Resumed(n_asked, n_yielded) == n_asked > n_yielded

\* ------------------------------------------------------------------ state
VARIABLES
    now,                  \* time.time() of the caller's clock
    request_times,        \* self._request_times
    server,               \* the backend's chain of pages
    pc,                   \* where the generator get_all_deals stands:
                          \*   "idle" not called, "loop" at the top of while True,
                          \*   "for" in the loop over results, "done" returned,
                          \*   "raised" ended by an exception
    checkpoint_callback,  \* TRUE when a callback was passed
    checkpoint_interval,
    after, page_count, total_deals,   \* the generator's locals
    data,                 \* the body get_deals returned last (None before)
    idx,                  \* entries of results the for loop has yielded
    raised,               \* the exception that ended the generator (None: none)
    last_wait,            \* history: what the last _wait_for_rate_limit slept
    calls,                \* history: the requests issued, with their answers
    yielded,              \* history: the deals the consumer received
    sleeps,               \* history: the time.sleep calls of the retry path
    checkpoints,          \* history: the checkpoint_callback invocations
    recorded,             \* history: how many timestamps were ever appended
    asked,                \* history: the next() calls the consumer has made
    previous,             \* history: what the extraction before this one yielded
    status,               \* what get_rate_limit_status returned last (None before)
    tasks,                \* the threads inside _wait_for_rate_limit (SpecThreads)
    request               \* the last call of get_deals: its limit argument and the
                          \*   params it sent (None before)

vars == <<now, request_times, server, pc, checkpoint_callback, checkpoint_interval,
          after, page_count, total_deals, data, idx, raised, last_wait,
          calls, yielded, sleeps, checkpoints, recorded, asked, previous,
          status, tasks, request>>

limiter == <<now, request_times, last_wait>>
locals == <<after, page_count, total_deals, data, idx>>
history == <<calls, yielded, sleeps, checkpoints>>
others == <<previous, status, tasks, request>>

\* the threads that may share one service object
Tasks == {1, 2}

\* the 429 answers among the requests issued so far
Throttled == { i \in 1..Len(calls) : calls[i].resp.status_code = 429 }

Init ==
    /\ now = 0
    /\ request_times = <<>>
    /\ server \in Chains
    /\ pc = "idle"
    /\ checkpoint_callback = FALSE
    /\ checkpoint_interval = DEFAULT_CHECKPOINT_INTERVAL
    /\ after = None /\ page_count = 0 /\ total_deals = 0
    /\ data = None /\ idx = 0
    /\ raised = None
    /\ last_wait = 0
    /\ calls = <<>> /\ yielded = <<>> /\ sleeps = <<>> /\ checkpoints = <<>>
    /\ recorded = 0 /\ asked = 0
    /\ previous = None /\ status = None /\ request = None
    /\ tasks = [t \in Tasks |-> [pc |-> "out", now |-> 0, wait_time |-> 0,
                                kept |-> <<>>, admitted |-> <<>>]]

\* time passes on the caller's clock
TickUpTo(limit) ==
    /\ now < limit
    /\ now' = now + TickStep
    /\ UNCHANGED <<request_times, last_wait, server, pc, checkpoint_callback,
                   checkpoint_interval, locals, raised, history, recorded,
                   asked, others>>

Tick == TickUpTo(MaxTime)

\* get_deals called on its own, as the module's __main__ does: the rate limiter,
\* then the request, whose answer goes to the caller and leaves no state
GetDealsLimit(limit, over) ==
    /\ pc = "idle"
    /\ now <= MaxIdle
    /\ LET admit == WaitForRateLimit(request_times, now, over)
       IN  /\ admit.slept = 0 => over = 0
           /\ request_times' = admit.times
           /\ now' = admit.now
           /\ last_wait' = admit.slept
           /\ recorded' = recorded + Appended(request_times, admit.times)
    /\ request' = Some(Request(limit))
    /\ UNCHANGED <<server, pc, checkpoint_callback, checkpoint_interval,
                   locals, raised, history, asked, previous, status, tasks>>

\* get_deals() with the default of its limit parameter
GetDeals(over) == GetDealsLimit(DEFAULT_LIMIT, over)

\* the locals a call of get_all_deals starts with: after = None
InitialCursor_keep(a) == a

InitialCursor(a) == None

\* get_rate_limit_status: the timestamps after the cutoff are counted
RateLimitStatus_all(times, t) ==
    [requests_in_window |-> Len(times),
     max_requests |-> RATE_LIMIT_MAX,
     window_seconds |-> RATE_LIMIT_WINDOW,
     remaining |-> RATE_LIMIT_MAX - Len(times)]

RateLimitStatus(times, t) ==
    LET active_requests == Prune(times, t)
    IN  [requests_in_window |-> Len(active_requests),
         max_requests |-> RATE_LIMIT_MAX,
         window_seconds |-> RATE_LIMIT_WINDOW,
         remaining |-> RATE_LIMIT_MAX - Len(active_requests)]

\* a caller reads the status; status holds what it was last given
GetRateLimitStatus ==
    /\ pc = "idle"
    /\ status' = Some(RateLimitStatus(request_times, now))
    /\ status' # status
    /\ UNCHANGED <<limiter, server, pc, checkpoint_callback, checkpoint_interval,
                   locals, raised, history, recorded, asked, previous, tasks, request>>

\* get_all_deals(checkpoint_callback=cb, checkpoint_interval=n) is called and
\* the consumer asks for the first deal: the body runs up to while True
GetAllDeals(cb, n) ==
    /\ pc = "idle"
    /\ pc' = "loop"
    /\ checkpoint_callback' = cb
    /\ checkpoint_interval' = n
    /\ after' = InitialCursor(after) /\ page_count' = 0 /\ total_deals' = 0
    /\ asked' = 1
    /\ UNCHANGED <<limiter, server, data, idx, raised, history, recorded, others>>

\* one turn of while True up to the for loop: get_deals (the rate limiter,
\* then the request) and the except clauses of get_all_deals.  A walk that
\* comes back to pages it has had is followed for MaxPages + 1 pages.
FetchPage(resp, over) ==
    /\ pc = "loop"
    /\ Resumed(asked, Len(yielded))
    /\ page_count <= MaxPages
    /\ resp.status_code = 429 => Cardinality(Throttled) < MaxThrottle
    /\ LET admit == WaitForRateLimit(request_times, now, over)
           param == AfterParam(after)
           page == server[ServerPage(server, param)]
           exc == GetDealsRaises(resp)
       IN  /\ admit.slept = 0 => over = 0
           /\ request_times' = admit.times
           /\ last_wait' = admit.slept
           /\ recorded' = recorded + Appended(request_times, admit.times)
           /\ calls' = Append(calls, [after |-> param, resp |-> resp])
           /\ request' = Some(Request(EXTRACTION_LIMIT))
           /\ IF exc = None
              THEN /\ data' = Some(page)
                   /\ page_count' = page_count + 1
                   /\ idx' = 0
                   /\ pc' = "for"
                   /\ now' = admit.now
                   /\ UNCHANGED <<raised, sleeps>>
                   /\ UNCHANGED after
              ELSE IF CaughtRateLimit(exc)
              THEN /\ now' = admit.now + RETRY_SLEEP
                   /\ sleeps' = Append(sleeps, RETRY_SLEEP)
                   /\ after' = RetryCursor(after)
                   /\ pc' = "loop"
                   /\ UNCHANGED <<data, page_count, idx, raised>>
              ELSE /\ raised' = exc
                   /\ pc' = "raised"
                   /\ now' = admit.now
                   /\ UNCHANGED <<after, data, page_count, idx, sleeps>>
    /\ UNCHANGED <<server, checkpoint_callback, checkpoint_interval,
                   total_deals, yielded, checkpoints, asked, previous, status, tasks>>

\* the consumer, holding the deal it asked for, asks for the next one
ConsumerNext ==
    /\ pc = "for"
    /\ asked = Len(yielded)
    /\ asked' = asked + 1
    /\ UNCHANGED <<limiter, server, pc, checkpoint_callback, checkpoint_interval,
                   locals, raised, history, recorded, others>>

\* for deal in results: total_deals += 1; yield deal
YieldDeal ==
    /\ pc = "for"
    /\ Resumed(asked, Len(yielded))
    /\ idx < Len(data[1].results)
    /\ idx' = idx + 1
    /\ total_deals' = total_deals + 1
    /\ yielded' = Append(yielded, data[1].results[idx + 1])
    /\ UNCHANGED <<limiter, server, pc, checkpoint_callback, checkpoint_interval,
                   after, page_count, data, raised, calls, sleeps, checkpoints,
                   recorded, asked, others>>

\* checkpoint_callback(page=page_count, deals_so_far=total_deals)
CheckpointArgs_page(pages, deals, i) == [page |-> pages, deals_so_far |-> i]
CheckpointArgs(pages, deals, i) == [page |-> pages, deals_so_far |-> deals]

\* checkpoint_callback and page_count % checkpoint_interval == 0
CheckpointDue_first(cb, pages, n) == cb /\ pages % n = 1 % n
CheckpointDue(cb, pages, n) == cb /\ pages % n = 0

\* the rest of the turn once results is exhausted: the checkpoint, then the
\* look at data["paging"]
EndOfPage ==
    /\ pc = "for"
    /\ Resumed(asked, Len(yielded))
    /\ idx = Len(data[1].results)
    /\ checkpoints' = IF CheckpointDue(checkpoint_callback, page_count, checkpoint_interval)
                      THEN Append(checkpoints,
                                  CheckpointArgs(page_count, total_deals, idx))
                      ELSE checkpoints
    /\ IF data[1].shape \in {"no_paging", "no_next"}
       THEN pc' = "done" /\ UNCHANGED <<after, raised>>
       ELSE IF data[1].shape = "no_after"
       THEN pc' = "raised" /\ raised' = Some("KeyError") /\ UNCHANGED after
       ELSE pc' = "loop" /\ after' = Some(data[1].after) /\ UNCHANGED raised
    /\ UNCHANGED <<limiter, server, checkpoint_callback, checkpoint_interval,
                   page_count, total_deals, data, idx, calls, yielded, sleeps,
                   recorded, asked, others>>

Next ==
    \/ Tick
    \/ \E n \in 1..MaxInterval : GetAllDeals(TRUE, n)
    \/ GetAllDeals(FALSE, DEFAULT_CHECKPOINT_INTERVAL)
    \/ \E resp \in Responses, over \in {0, TickStep} : FetchPage(resp, over)
    \/ ConsumerNext
    \/ YieldDeal
    \/ EndOfPage

Spec == Init /\ [][Next]_vars

\* an extraction over one page of entries with their properties
InitRecords ==
    /\ now = 0
    /\ request_times = <<>>
    /\ server \in EntryChains
    /\ pc = "idle"
    /\ checkpoint_callback = FALSE
    /\ checkpoint_interval = DEFAULT_CHECKPOINT_INTERVAL
    /\ after = None /\ page_count = 0 /\ total_deals = 0
    /\ data = None /\ idx = 0
    /\ raised = None
    /\ last_wait = 0
    /\ calls = <<>> /\ yielded = <<>> /\ sleeps = <<>> /\ checkpoints = <<>>
    /\ recorded = 0 /\ asked = 0
    /\ previous = None /\ status = None /\ request = None
    /\ tasks = [t \in Tasks |-> [pc |-> "out", now |-> 0, wait_time |-> 0,
                                kept |-> <<>>, admitted |-> <<>>]]

SpecRecords == InitRecords /\ [][Next]_vars

\* get_all_deals is called once more, with the arguments of the first call,
\* after the first generator was exhausted; what the first run delivered is
\* kept in previous
GetAllDealsAgain ==
    /\ pc = "done" /\ previous = None
    /\ previous' = Some(yielded)
    /\ pc' = "loop"
    /\ after' = InitialCursor(after) /\ page_count' = 0 /\ total_deals' = 0
    /\ asked' = 1
    /\ calls' = <<>> /\ yielded' = <<>> /\ sleeps' = <<>> /\ checkpoints' = <<>>
    /\ recorded' = 0
    /\ UNCHANGED <<limiter, server, checkpoint_callback, checkpoint_interval,
                   data, idx, raised, status, tasks, request>>

NextTwice == Next \/ GetAllDealsAgain

SpecTwice == Init /\ [][NextTwice]_vars

\* the service used for single page fetches only
TickIdle == TickUpTo(MaxIdle)

InitLimiter == Init /\ Len(server) = 1

NextLimiter ==
    \/ TickIdle
    \/ \E over \in {0, TickStep} : GetDeals(over)
    \/ GetRateLimitStatus

SpecLimiter == InitLimiter /\ [][NextLimiter]_vars

\* the limit arguments callers pass: small ones and those around the API maximum
Limits == {-1, 0, 1} \cup ((API_MAX_LIMIT - MaxExcess)..(API_MAX_LIMIT + MaxExcess))

\* the service used for single page fetches of any page size
NextLimits ==
    \/ TickIdle
    \/ \E limit \in Limits, over \in {0, TickStep} : GetDealsLimit(limit, over)

SpecLimits == InitLimiter /\ [][NextLimits]_vars

\* what a checkpoint callback may raise: an error of the service's own
\* hierarchy or any other exception
CallbackErrors == {"HubSpotRateLimitError", "HubSpotAPIError", "ValueError"}

\* the turn's end when the callback that is due raises e: the call stands
\* inside the try of get_all_deals, so its except clauses see the exception
CheckpointRaises(e) ==
    /\ pc = "for"
    /\ Resumed(asked, Len(yielded))
    /\ idx = Len(data[1].results)
    /\ CheckpointDue(checkpoint_callback, page_count, checkpoint_interval)
    /\ checkpoints' = Append(checkpoints,
                             [page |-> page_count, deals_so_far |-> total_deals,
                              raises |-> e])
    /\ IF CaughtRateLimit(Some(e))
       THEN /\ now' = now + RETRY_SLEEP
            /\ sleeps' = Append(sleeps, RETRY_SLEEP)
            /\ after' = RetryCursor(after)
            /\ pc' = "loop"
            /\ UNCHANGED raised
       ELSE /\ raised' = Some(e)
            /\ pc' = "raised"
            /\ UNCHANGED <<now, sleeps, after>>
    /\ UNCHANGED <<request_times, last_wait, server, checkpoint_callback,
                   checkpoint_interval, page_count, total_deals, data, idx,
                   calls, yielded, recorded, asked, others>>

NextCallback ==
    \/ Next
    \/ \E e \in CallbackErrors : CheckpointRaises(e)

SpecCallback == Init /\ [][NextCallback]_vars

\* Two threads share one service and call _wait_for_rate_limit, which takes no
\* lock: each statement that reads or assigns self._request_times is a step of
\* its own.  A task keeps its locals now and wait_time, the list its
\* comprehension has built (kept) and the timestamps it has appended (admitted).
\* now = time.time() and the comprehension that reads the list
Enter(t) ==
    /\ tasks[t].pc = "out"
    /\ Len(tasks[t].admitted) < MaxAdmits
    /\ tasks' = [tasks EXCEPT ![t].pc = "assign", ![t].now = now,
                              ![t].kept = Prune(request_times, now)]
    /\ UNCHANGED <<limiter, server, pc, checkpoint_callback, checkpoint_interval,
                   locals, raised, history, recorded, asked, previous, status, request>>

\* self._request_times = [...]: the list the comprehension built is assigned
Assign(t) ==
    /\ tasks[t].pc \in {"assign", "reassign"}
    /\ request_times' = tasks[t].kept
    /\ tasks' = [tasks EXCEPT ![t].pc = IF tasks[t].pc = "assign" THEN "check" ELSE "append"]
    /\ UNCHANGED <<now, last_wait, server, pc, checkpoint_callback, checkpoint_interval,
                   locals, raised, history, recorded, asked, previous, status, request>>

\* if len(self._request_times) >= RATE_LIMIT_MAX: wait_time = ...; if wait_time > 0
Check(t) ==
    /\ tasks[t].pc = "check"
    /\ LET wait_time == RATE_LIMIT_WINDOW - (tasks[t].now - request_times[1])
       IN  IF AtLimit(request_times) /\ wait_time > 0
           THEN tasks' = [tasks EXCEPT ![t].pc = "sleep", ![t].wait_time = wait_time]
           ELSE tasks' = [tasks EXCEPT ![t].pc = "append"]
    /\ UNCHANGED <<limiter, server, pc, checkpoint_callback, checkpoint_interval,
                   locals, raised, history, recorded, asked, previous, status, request>>

\* time.sleep(wait_time) returns, now = time.time(), and the comprehension
\* reads the list again
Wake(t) ==
    /\ tasks[t].pc = "sleep"
    /\ LET woken == tasks[t].now + tasks[t].wait_time
           t2 == IF woken > now THEN woken ELSE now
       IN  /\ now' = t2
           /\ tasks' = [tasks EXCEPT ![t].pc = "reassign", ![t].now = t2,
                                     ![t].kept = Prune(request_times, t2)]
    /\ last_wait' = tasks[t].wait_time
    /\ UNCHANGED <<request_times, server, pc, checkpoint_callback, checkpoint_interval,
                   locals, raised, history, recorded, asked, previous, status, request>>

\* self._request_times.append(now)
AppendNow(t) ==
    /\ tasks[t].pc = "append"
    /\ request_times' = Append(request_times, tasks[t].now)
    /\ tasks' = [tasks EXCEPT ![t].pc = "out",
                              ![t].admitted = Append(tasks[t].admitted, tasks[t].now)]
    /\ recorded' = recorded + 1
    /\ UNCHANGED <<now, last_wait, server, pc, checkpoint_callback, checkpoint_interval,
                   locals, raised, history, asked, previous, status, request>>

NextThreads ==
    \/ TickIdle
    \/ \E t \in Tasks : Enter(t)
    \/ \E t \in Tasks : Assign(t)
    \/ \E t \in Tasks : Check(t)
    \/ \E t \in Tasks : Wake(t)
    \/ \E t \in Tasks : AppendNow(t)

SpecThreads == InitLimiter /\ [][NextThreads]_vars

\* an extraction whose consumer keeps iterating: the generator is resumed as
\* long as it has not ended
Resume ==
    \/ \E resp \in Responses, over \in {0, TickStep} : FetchPage(resp, over)
    \/ ConsumerNext
    \/ YieldDeal
    \/ EndOfPage

LiveSpec == Spec /\ WF_vars(Resume)

\* the timestamps of times inside the window that ends at t
InWindow(times, t) == { i \in 1..Len(times) : times[i] > t - RATE_LIMIT_WINDOW }

\* C1: whatever get_deals calls one caller makes, at every moment at most
\* RATE_LIMIT_MAX recorded timestamps lie in the window that ends now
C1_WindowQuota == Cardinality(InWindow(request_times, now)) <= RATE_LIMIT_MAX

\* C1 witness: a call found the quota used up, slept, and the window is full
C1_Witness ==
    /\ last_wait > 0
    /\ Cardinality(InWindow(request_times, now)) = RATE_LIMIT_MAX
    /\ Len(request_times) = RATE_LIMIT_MAX

\* ------------------------------------------------- reading the histories
RECURSIVE Concat(_)
\* the sequences of the sequence ss, one after the other
Concat(ss) == IF ss = <<>> THEN <<>> ELSE Head(ss) \o Concat(Tail(ss))

\* the deals of the first n pages of the backend, in order
DealsOfPages(n) == Concat([k \in 1..n |-> server[k].results])

\* an exchange that delivered a page: 200 with a body that parses
Delivered(resp) ==
    resp.transport = "ok" /\ resp.status_code = 200 /\ resp.json = "ok"

\* an exchange that ends an extraction: anything but a page or a 429
Fatal(resp) == ~Delivered(resp) /\ resp.status_code # 429

\* the page the backend served for the i-th request
Served(i) == server[ServerPage(server, calls[i].after)]

\* the requests that delivered a page, in order
Deliveries == SelectSeq(calls, LAMBDA c : Delivered(c.resp))

\* the 429 answers, in order
Throttles == SelectSeq(calls, LAMBDA c : c.resp.status_code = 429)

\* C2: the request after a 429 carries the cursor of the throttled request, a
\* 429 does not advance page_count, and an extraction that ends has yielded the
\* deals of every page once, in page order, wherever the 429 answers fell
C2_RetrySamePage ==
    /\ \A i \in Throttled : i < Len(calls) => calls[i + 1].after = calls[i].after
    /\ page_count = Len(Deliveries)
    /\ pc = "done" => yielded = DealsOfPages(Len(server))

\* C2 witness: an extraction of two full pages ended after 429 answers on the
\* first and on the second page
C2_Witness ==
    /\ pc = "done" /\ Len(server) = 2 /\ Len(yielded) = 2 * MaxPageLen
    /\ \E i, j \in Throttled : calls[i].after = None /\ calls[j].after # None

\* C3 (as claimed): every 429 is followed by one sleep of the retry path, of
\* the duration the Retry-After header signals (10 when there is none)
C3_SleepsSignaledDelay ==
    /\ Len(sleeps) = Len(Throttles)
    /\ \A j \in 1..Len(sleeps) : sleeps[j] = RetryAfter(Throttles[j].resp)

\* C4 (as claimed): while no request is throttled, the first request has no
\* "after", each later one carries the next.after of the page before it, there
\* are never more requests than pages, and the deals come out in page order
C4_FollowsCursors ==
    (\A i \in 1..Len(calls) : Delivered(calls[i].resp)) =>
        /\ \A i \in 1..Len(calls) :
              calls[i].after = IF i = 1 THEN None ELSE Some(Served(i - 1).after)
        /\ Len(calls) <= Len(server)
        /\ yielded = SubSeq(DealsOfPages(Len(server)), 1, Len(yielded))
        /\ pc = "done" => Len(calls) = Len(server) /\ yielded = DealsOfPages(Len(server))

\* C5 (as claimed): once the deals of a page without next.after are yielded
\* the generator has returned: no exception, whatever the shape of the page
C5_EndsOnLastPage ==
    (data # None /\ data[1].shape \in EndShapes /\ pc # "for") =>
        (pc = "done" /\ raised = None)

\* C6: a request that ends in anything but a page or a 429 is the last request:
\* the generator has ended with that exception, which is no rate-limit error,
\* and from then on no request is issued and no deal yielded
C6_OtherErrorsPropagate ==
    /\ [](\A i \in 1..Len(calls) :
            Fatal(calls[i].resp) =>
                /\ i = Len(calls)
                /\ pc = "raised"
                /\ raised \notin {None, Some("HubSpotRateLimitError")})
    /\ [][pc = "raised" => (pc' = "raised" /\ calls' = calls /\ yielded' = yielded)]_vars

\* C6 witness: a timeout ended an extraction that had been throttled and had
\* yielded deals
C6_Witness ==
    /\ pc = "raised" /\ raised = Some("HubSpotAPIError")
    /\ calls[Len(calls)].resp.transport = "Timeout"
    /\ Throttled # {} /\ Len(yielded) > 0

\* every cursor the backend hands out is a token that names the next page
CursorsLeadOn ==
    \A k \in 1..Len(server) : server[k].shape = "after" => server[k].after # ""

\* C7: no rate-limit error ever ends the generator, a 429 leaves it at the top
\* of the loop ready for the retry, and once the backend stops throttling an
\* extraction over a chain whose cursors lead on comes to its end
C7_ThrottlingTransparent ==
    /\ [](raised # Some("HubSpotRateLimitError"))
    /\ [](\A i \in Throttled : i = Len(calls) => pc = "loop")
    /\ (pc = "loop" /\ CursorsLeadOn) ~> (pc \in {"done", "raised"})

\* C7 witness: an extraction ended normally after MaxThrottle 429 answers in a
\* row on its second page
C7_Witness ==
    /\ pc = "done" /\ Len(server) >= 2
    /\ Len(Throttles) = MaxThrottle
    /\ \A i \in Throttled : calls[i].after # None

\* C8: when a request fails for good, the consumer holds the deals of the pages
\* delivered before it, in order (pages 1..page_count of a chain whose cursors
\* lead on), and the generator has ended with an exception, not by returning
C8_PartialThenRaise ==
    (Len(calls) > 0 /\ Fatal(calls[Len(calls)].resp)) =>
        /\ pc = "raised" /\ raised # None
        /\ yielded = Concat([i \in 1..Len(Deliveries) |->
                               server[ServerPage(server, Deliveries[i].after)].results])
        /\ CursorsLeadOn => yielded = DealsOfPages(page_count)

\* C8 witness: the body of the second page did not parse after the first page
\* was yielded in full
C8_Witness ==
    /\ pc = "raised" /\ page_count = 1
    /\ calls[Len(calls)].resp.json # "ok"
    /\ Len(yielded) = MaxPageLen /\ yielded = server[1].results

\* the pages whose turn of the loop is over (the checkpoint included)
PagesCompleted == IF pc = "for" THEN page_count - 1 ELSE page_count

\* C9: with a callback and checkpoint_interval n >= 1 the callback has been
\* invoked floor(P / n) times after P completed pages, the i-th time with page
\* i * n, with deals_so_far that never decreases; an extraction that ends has
\* completed every page of the chain; without a callback nothing is invoked
C9_CheckpointEveryN ==
    /\ ~checkpoint_callback => checkpoints = <<>>
    /\ (checkpoint_callback /\ checkpoint_interval >= 1) =>
          /\ Len(checkpoints) = PagesCompleted \div checkpoint_interval
          /\ \A i \in 1..Len(checkpoints) :
                checkpoints[i].page = i * checkpoint_interval
          /\ \A i \in 1..(Len(checkpoints) - 1) :
                checkpoints[i].deals_so_far <= checkpoints[i + 1].deals_so_far
    /\ pc = "done" => page_count = Len(server)

\* C9 witness: an extraction of MaxPages pages ended with more than one
\* checkpoint, the later one with more deals
C9_Witness ==
    /\ pc = "done" /\ page_count = MaxPages
    /\ Len(checkpoints) >= 2
    /\ checkpoints[1].deals_so_far < checkpoints[2].deals_so_far

\* C10 (as claimed): a request answered 401 or 403 ends the generator with
\* HubSpotAuthenticationError and is the last request
C10_AuthErrorKind ==
    \A i \in 1..Len(calls) :
        calls[i].resp.status_code \in {401, 403} =>
            /\ i = Len(calls)
            /\ pc = "raised"
            /\ raised = Some("HubSpotAuthenticationError")

\* C11: every request get_all_deals has issued, the retries after a 429
\* included, went through _wait_for_rate_limit once, which appended one
\* timestamp whether it slept or not: as many timestamps were ever recorded as
\* requests were issued, and the newest one is still in the list
C11_OneTimestampPerRequest ==
    /\ recorded = Len(calls)
    /\ calls # <<>> =>
          /\ request_times # <<>>
          /\ request_times[Len(request_times)] <= now

\* C11 witness: after a 429 and its retry, a later request had to wait for the
\* window and was recorded like the others
C11_Witness ==
    /\ Throttled # {} /\ last_wait > 0
    /\ Len(calls) >= 4 /\ recorded = Len(calls)

\* C12 (as claimed): every deal the consumer receives is flat: it has no
\* nested "properties" and carries the entry's id and each of the entry's
\* properties at the top level
C12_YieldedFlat ==
    \A i \in 1..Len(yielded) :
        LET entry == server[1].results[i]
        IN  /\ "properties" \notin DOMAIN yielded[i]
            /\ "id" \in DOMAIN entry => "id" \in DOMAIN yielded[i]
            /\ \A key \in DOMAIN entry.properties :
                  key \in DOMAIN yielded[i] /\ yielded[i][key] = entry.properties[key]

\* C15 (as claimed): every deal the consumer receives has an id that is present
\* and not empty, whatever the entries of the backend look like
C15_YieldedHaveId ==
    \A i \in 1..Len(yielded) :
        /\ "id" \in DOMAIN yielded[i]
        /\ yielded[i].id # ""

\* C13: a second extraction over the same backend starts from the first page
\* (its first request carries no cursor) and delivers what the first one
\* delivered: at every moment a prefix of it, and all of it when it ends
C13_SecondRunSame ==
    previous # None =>
        /\ calls # <<>> => calls[1].after = None
        /\ Len(yielded) <= Len(previous[1])
        /\ yielded = SubSeq(previous[1], 1, Len(yielded))
        /\ pc = "done" => yielded = previous[1]

C13_Witness ==
    /\ previous # None /\ pc = "done"
    /\ Len(Deliveries) = 2 /\ Len(yielded) = 2 * MaxPageLen
    /\ yielded = previous[1]

\* C14: reading the status takes no time and leaves the timestamps as they
\* are; what it returns is the number c of timestamps inside the window that
\* ends now, the quota, the window and remaining = quota - c, which is not
\* negative when one caller uses the service
C14_StatusReport ==
    [][status' # status =>
          LET c == Cardinality(InWindow(request_times, now))
          IN  /\ status' = Some([requests_in_window |-> c,
                                 max_requests |-> RATE_LIMIT_MAX,
                                 window_seconds |-> RATE_LIMIT_WINDOW,
                                 remaining |-> RATE_LIMIT_MAX - c])
              /\ RATE_LIMIT_MAX - c >= 0
              /\ request_times' = request_times
              /\ now' = now]_vars

C14_Witness ==
    /\ status # None
    /\ status[1].remaining = 0
    /\ last_wait > 0
    /\ Len(request_times) = RATE_LIMIT_MAX
    /\ Cardinality(InWindow(request_times, now)) < RATE_LIMIT_MAX

\* how often the time v occurs in times
Count(times, v) == Cardinality({ i \in 1..Len(times) : times[i] = v })

\* C16 (as claimed): when two tasks call _wait_for_rate_limit on one service,
\* under every interleaving of their steps at most RATE_LIMIT_MAX timestamps
\* lie in the window that ends now, and every timestamp a task has appended
\* and that is still in that window is in the list
C16_ConcurrentAdmit ==
    /\ Cardinality(InWindow(request_times, now)) <= RATE_LIMIT_MAX
    /\ (\A t \in Tasks : tasks[t].pc = "out") =>
          \A v \in (now - RATE_LIMIT_WINDOW + 1)..now :
              Count(request_times, v)
                  = Count(tasks[1].admitted, v) + Count(tasks[2].admitted, v)

\* the deals of the pages the first n deliveries brought, in order
DealsDelivered(n) == Concat([k \in 1..n |-> server[ServerPage(server, Deliveries[k].after)].results])

\* C17: the generator runs only while the consumer waits for a deal.  It never
\* yields more than was asked for; a request is issued and a checkpoint is
\* invoked only when the consumer has taken every deal of the pages delivered
\* so far and has asked for one more; so the pages before the last delivered
\* one hold fewer deals than the consumer has asked for
C17_Lazy ==
    /\ [](/\ Len(yielded) <= asked
          /\ Deliveries # <<>> =>
                /\ Len(DealsDelivered(Len(Deliveries) - 1)) <= Len(yielded)
                /\ Len(DealsDelivered(Len(Deliveries) - 1)) < asked)
    /\ [][(calls' # calls \/ checkpoints' # checkpoints) =>
              /\ Len(yielded) = Len(DealsDelivered(Len(Deliveries)))
              /\ asked = Len(yielded) + 1]_vars

\* C17 witness: the consumer holds the last deal of the first of two pages and
\* has not asked for more: one request was made and the checkpoint that is due
\* after the first page has not been invoked
C17_Witness ==
    /\ pc = "for" /\ asked = Len(yielded) /\ asked = MaxPageLen
    /\ Len(server) = 2 /\ Len(calls) = 1
    /\ checkpoint_callback /\ checkpoint_interval = 1 /\ checkpoints = <<>>

\* C19: whenever the callback is invoked, page is the number of pages
\* delivered so far, 429 answers not counted, and deals_so_far is the number
\* of deals yielded so far, which is the number of deals those pages hold
C19_CheckpointCounts ==
    [][checkpoints' # checkpoints =>
          LET args == checkpoints'[Len(checkpoints')]
          IN  /\ args.page = Len(Deliveries)
              /\ args.deals_so_far = Len(yielded)
              /\ args.deals_so_far = Len(DealsDelivered(args.page))
              /\ CursorsLeadOn => args.deals_so_far = Len(DealsOfPages(args.page))]_vars

\* C19 witness: the callback was invoked after the second page of an
\* extraction in which a request was throttled
C19_Witness ==
    /\ checkpoints # <<>>
    /\ checkpoints[Len(checkpoints)].page = 2
    /\ checkpoints[Len(checkpoints)].deals_so_far = 2 * MaxPageLen
    /\ Throttled # {} /\ Len(calls) > 2

\* C20: a call of _wait_for_rate_limit sleeps at most once and only when the
\* timestamps inside the window are RATE_LIMIT_MAX or more; the sleep lasts
\* wait = RATE_LIMIT_WINDOW - (now - oldest of them), 0 < wait <= window; and
\* the timestamps in the window, pruned again after waking, are fewer than
\* RATE_LIMIT_MAX when the new one is appended
C20_SleepOnce ==
    [][request_times' # request_times =>
          LET inside == InWindow(request_times, now)
              oldest == request_times[CHOOSE i \in inside : \A j \in inside : i <= j]
          IN  /\ last_wait' \in 0..RATE_LIMIT_WINDOW
              /\ last_wait' > 0 <=> Cardinality(inside) >= RATE_LIMIT_MAX
              /\ last_wait' > 0 => last_wait' = RATE_LIMIT_WINDOW - (now - oldest)
              /\ now' - now \in {last_wait', last_wait' + TickStep}
              /\ last_wait' = 0 => now' = now
              /\ Cardinality(InWindow(request_times', now')) = Len(request_times')
              /\ Len(request_times') - 1 < RATE_LIMIT_MAX]_vars

\* C20 witness: a call that found the quota used up part of the way through
\* the window slept for the rest of it
C20_Witness ==
    /\ last_wait > 0 /\ last_wait < RATE_LIMIT_WINDOW
    /\ request_times # <<>> /\ request_times[Len(request_times)] = now

\* C18 (as claimed): an exception the checkpoint callback raises, whatever
\* its type, ends the generator with that exception, and the page that was
\* just completed is neither requested nor yielded again
C18_CallbackErrorPropagates ==
    \A i \in 1..Len(checkpoints) :
        "raises" \in DOMAIN checkpoints[i] =>
            /\ i = Len(checkpoints)
            /\ pc = "raised" /\ raised = Some(checkpoints[i].raises)
            /\ Len(Deliveries) = checkpoints[i].page
            /\ Len(yielded) = checkpoints[i].deals_so_far

\* C21: whatever limit get_deals is called with, the "limit" it sends is
\* min(limit, 100): the argument when that is at most 100 and 100 otherwise,
\* so never more than 100
C21_LimitClamped ==
    request # None =>
        LET asked_for == request[1].limit
            sent == request[1].params.limit
        IN  /\ sent <= 100
            /\ sent <= asked_for
            /\ sent = asked_for \/ sent = 100

\* C21 witness: a limit above the maximum was asked for and 100 was sent
C21_Witness ==
    /\ request # None
    /\ request[1].limit = API_MAX_LIMIT + MaxExcess
    /\ request[1].params.limit = 100

====
